---- MODULE Spec2Model ----
(***************************************************************************)
(* Model of the IDL generator (src/src/main.rs).                           *)
(*                                                                         *)
(* main runs a fixed pipeline: expand_crate, parse_source_file, the three  *)
(* extractors collect_instructions / collect_accounts / collect_types,     *)
(* extract_program_name, serde_json::to_string_pretty and fs::write.  The  *)
(* first step that returns Err ends the run (the `?` operator).            *)
(*                                                                         *)
(* The syntax tree (syn::File) is a sequence of top-level items.  An item  *)
(* is a record with the fields                                             *)
(*   kind    "Fn" | "Struct" | "Enum" | "Other"   (syn::Item variant)      *)
(*   ident   the declared name                                             *)
(*   vis     "Public" | "Restricted" | "Inherited" (syn::Visibility)       *)
(*   attrs   sequence of attributes, each [path |-> sequence of segments]  *)
(*   inputs  sequence of syn::FnArg (functions)                            *)
(*   fields  sequence of syn::Field (structs)                              *)
(* A type (syn::Type) is [kind, ident, args]; it is only ever rendered to  *)
(* text, the way quote!(#ty).to_string() prints its token stream.          *)
(***************************************************************************)
EXTENDS Integers, Sequences, FiniteSets, TLC

\* ------------------------------------------------------------------ bounds
MaxItems == 3
MaxParams == 2
MaxAttrs == 2
MaxFields == 2

\* ------------------------------------------------------- generic helpers
RECURSIVE SeqsUpTo(_, _)
SeqsUpTo(S, n) ==
  IF n = 0 THEN {<<>>}
  ELSE LET shorter == SeqsUpTo(S, n - 1)
       IN shorter \cup {Append(s, x) : s \in {t \in shorter : Len(t) = n - 1}, x \in S}

\* Option<T>
None == [some |-> FALSE, val |-> ""]
Some(x) == [some |-> TRUE, val |-> x]

\* ------------------------------------------------------------ syn::Type
TyPath(id, targs) == [kind |-> "Path", ident |-> id, args |-> targs]
TyRef(elem) == [kind |-> "Reference", ident |-> "", args |-> <<elem>>]
TyTuple(elems) == [kind |-> "Tuple", ident |-> "", args |-> elems]
TyArray(elem, len) == [kind |-> "Array", ident |-> len, args |-> <<elem>>]

\* The token stream's Display: tokens are separated by one space, a
\* parenthesised or bracketed group hugs its content.
RECURSIVE type_to_string(_)
RECURSIVE JoinTypes(_, _)
JoinTypes(tys, i) ==
  IF i > Len(tys) THEN ""
  ELSE IF i = Len(tys) THEN type_to_string(tys[i])
  ELSE type_to_string(tys[i]) \o " , " \o JoinTypes(tys, i + 1)

type_to_string(ty) ==
  CASE ty.kind = "Path" ->
         IF Len(ty.args) = 0 THEN ty.ident
         ELSE ty.ident \o " < " \o JoinTypes(ty.args, 1) \o " >"
    [] ty.kind = "Reference" -> "& " \o type_to_string(ty.args[1])
    [] ty.kind = "Tuple" -> "(" \o JoinTypes(ty.args, 1) \o ")"
    [] ty.kind = "Array" -> "[" \o type_to_string(ty.args[1]) \o " ; " \o ty.ident \o "]"


\* ------------------------------------------------------- syn::Attribute
Attr(segments, meta) == [path |-> segments, args |-> meta]

\* syn::Path::is_ident: a single segment, equal to the given identifier
is_ident(path, id) == Len(path) = 1 /\ path[1] = id

RECURSIVE JoinStrings(_, _, _)
JoinStrings(strs, sep, i) ==
  IF i > Len(strs) THEN ""
  ELSE IF i = Len(strs) THEN strs[i]
  ELSE strs[i] \o sep \o JoinStrings(strs, sep, i + 1)

\* ----------------------------------------------------------- syn::FnArg
PatIdent(id) == [kind |-> "Ident", ident |-> id]
PatTuple == [kind |-> "Tuple", ident |-> ""]
Typed(p, t) == [kind |-> "Typed", pat |-> p, ty |-> t]
Receiver == [kind |-> "Receiver", pat |-> PatIdent("self"), ty |-> TyPath("Self", <<>>)]

\* ----------------------------------------------------------- syn::Field
Field(id, t) == [ident |-> id, ty |-> t]
NoFields == [style |-> "Unit", list |-> <<>>]

\* ------------------------------------------------------------ syn::Item
ItemFn(v, id, ins) ==
  [kind |-> "Fn", ident |-> id, vis |-> v, attrs |-> <<>>, inputs |-> ins,
   fields |-> NoFields, variants |-> <<>>]
ItemStruct(as, id, fs) ==
  [kind |-> "Struct", ident |-> id, vis |-> "Inherited", attrs |-> as, inputs |-> <<>>,
   fields |-> fs, variants |-> <<>>]
ItemEnum(as, id, vs) ==
  [kind |-> "Enum", ident |-> id, vis |-> "Inherited", attrs |-> as, inputs |-> <<>>,
   fields |-> NoFields, variants |-> vs]
ItemOther ==
  [kind |-> "Other", ident |-> "", vis |-> "Inherited", attrs |-> <<>>, inputs |-> <<>>,
   fields |-> NoFields, variants |-> <<>>]

\* ------------------------------------------------- instruction extractor
IdlArgument(n, t) == [name |-> n, type_name |-> t]

\* mutant: pub(crate) and pub(super) functions pass for public ones
is_instruction_fn_any_pub(item_fn) == item_fn.vis # "Inherited"

is_instruction_fn(item_fn) == item_fn.vis = "Public"

\* the closure of filter_map over sig.inputs, one argument at a time
\* mutant: a typed parameter bound by a pattern is dropped instead of named "_"
RECURSIVE parse_args_skip_pattern(_, _)
parse_args_skip_pattern(inputs, i) ==
  IF i > Len(inputs) THEN <<>>
  ELSE LET arg == inputs[i]
           rest == parse_args_skip_pattern(inputs, i + 1)
       IN IF arg.kind = "Typed" /\ arg.pat.kind = "Ident"
          THEN <<IdlArgument(arg.pat.ident, type_to_string(arg.ty))>> \o rest
          ELSE rest

RECURSIVE parse_args(_, _)
parse_args(inputs, i) ==
  IF i > Len(inputs) THEN <<>>
  ELSE LET arg == inputs[i]
           rest == parse_args(inputs, i + 1)
       IN IF arg.kind = "Typed"
          THEN LET arg_name == IF arg.pat.kind = "Ident" THEN arg.pat.ident ELSE "_"
                   type_name == type_to_string(arg.ty)
               IN <<IdlArgument(arg_name, type_name)>> \o rest
          ELSE rest

parse_instruction_fn(item_fn) ==
  [name |-> item_fn.ident, args |-> parse_args(item_fn.inputs, 1), accounts |-> <<>>]

RECURSIVE instructions_from(_, _)
instructions_from(items, i) ==
  IF i > Len(items) THEN <<>>
  ELSE IF items[i].kind = "Fn" /\ is_instruction_fn(items[i])
       THEN <<parse_instruction_fn(items[i])>> \o instructions_from(items, i + 1)
       ELSE instructions_from(items, i + 1)

collect_instructions(ast) == instructions_from(ast, 1)

\* ----------------------------------------------------- account extractor
IdlField(n, t) == [name |-> n, type_name |-> t]

\* mutant: only the explicit account marker classifies a record
is_account_struct_marker_only(item_struct) ==
  \E k \in 1..Len(item_struct.attrs) : is_ident(item_struct.attrs[k].path, "account")

is_account_struct(item_struct) ==
  \E k \in 1..Len(item_struct.attrs) :
     \/ is_ident(item_struct.attrs[k].path, "account")
     \/ is_ident(item_struct.attrs[k].path, "derive")

RECURSIVE parse_fields(_, _)
parse_fields(list, i) ==
  IF i > Len(list) THEN <<>>
  ELSE LET field == list[i]
           rest == parse_fields(list, i + 1)
       IN IF field.ident.some
          THEN <<IdlField(field.ident.val, type_to_string(field.ty))>> \o rest
          ELSE rest

parse_account_struct(item_struct) ==
  [name |-> item_struct.ident, type_name |-> item_struct.ident,
   fields |-> parse_fields(item_struct.fields.list, 1)]

RECURSIVE accounts_from(_, _)
accounts_from(items, i) ==
  IF i > Len(items) THEN <<>>
  ELSE IF items[i].kind = "Struct" /\ is_account_struct(items[i])
       THEN <<parse_account_struct(items[i])>> \o accounts_from(items, i + 1)
       ELSE accounts_from(items, i + 1)

collect_accounts(ast) == accounts_from(ast, 1)

\* -------------------------------------------------------- type extractor
\* quote!(#item).to_string(): the declaration's whole token stream
attr_to_string(attr) ==
  "# [" \o JoinStrings(attr.path, " :: ", 1)
        \o (IF attr.args = "" THEN "" ELSE " " \o attr.args) \o "] "

RECURSIVE attrs_to_string(_, _)
attrs_to_string(attrs, i) ==
  IF i > Len(attrs) THEN ""
  ELSE attr_to_string(attrs[i]) \o attrs_to_string(attrs, i + 1)

RECURSIVE fields_to_string(_, _)
fields_to_string(list, i) ==
  IF i > Len(list) THEN ""
  ELSE (IF list[i].ident.some THEN list[i].ident.val \o " : " ELSE "")
       \o type_to_string(list[i].ty)
       \o (IF i < Len(list) THEN " , " ELSE "")
       \o fields_to_string(list, i + 1)

item_struct_to_string(item_struct) ==
  attrs_to_string(item_struct.attrs, 1) \o "struct " \o item_struct.ident \o
  ( CASE item_struct.fields.style = "Named" ->
           IF Len(item_struct.fields.list) = 0 THEN " { }"
           ELSE " { " \o fields_to_string(item_struct.fields.list, 1) \o " }"
      [] item_struct.fields.style = "Unnamed" ->
           " (" \o fields_to_string(item_struct.fields.list, 1) \o ") ;"
      [] item_struct.fields.style = "Unit" -> " ;" )

item_enum_to_string(item_enum) ==
  attrs_to_string(item_enum.attrs, 1) \o "enum " \o item_enum.ident \o
  ( IF Len(item_enum.variants) = 0 THEN " { }"
    ELSE " { " \o JoinStrings(item_enum.variants, " , ", 1) \o " }" )

parse_type_struct(item_struct) ==
  [name |-> item_struct.ident, type_def |-> item_struct_to_string(item_struct)]

parse_type_enum(item_enum) ==
  [name |-> item_enum.ident, type_def |-> item_enum_to_string(item_enum)]

\* mutant: the account check is forgotten, every record is emitted as a type
RECURSIVE types_from_all_structs(_, _)
types_from_all_structs(items, i) ==
  IF i > Len(items) THEN <<>>
  ELSE CASE items[i].kind = "Struct" ->
              <<parse_type_struct(items[i])>> \o types_from_all_structs(items, i + 1)
         [] items[i].kind = "Enum" ->
              <<parse_type_enum(items[i])>> \o types_from_all_structs(items, i + 1)
         [] OTHER -> types_from_all_structs(items, i + 1)

RECURSIVE types_from(_, _)
types_from(items, i) ==
  IF i > Len(items) THEN <<>>
  ELSE CASE items[i].kind = "Struct" ->
              IF ~is_account_struct(items[i])
              THEN <<parse_type_struct(items[i])>> \o types_from(items, i + 1)
              ELSE types_from(items, i + 1)
         [] items[i].kind = "Enum" ->
              <<parse_type_enum(items[i])>> \o types_from(items, i + 1)
         [] OTHER -> types_from(items, i + 1)

collect_types(ast) == types_from(ast, 1)

\* ------------------------------------------------------ manifest reader
\* The manifest file as found on disk.  package and name say what
\* toml::Value::get returns: "absent" (None), "value" (a value of another
\* TOML type) or "table" / "string".
Manifest(r, p, pkg, n, s) ==
  [readable |-> r, parses |-> p, package |-> pkg, name |-> n, name_str |-> s]

NoManifest == Manifest(FALSE, FALSE, "absent", "absent", "")

Ok(v) == [ok |-> TRUE, val |-> v, err |-> ""]
Err(e) == [ok |-> FALSE, val |-> "", err |-> e]

\* mutant: a missing or non-string name falls back to the empty name
extract_program_name_default_name(m) ==
  IF ~m.readable THEN Err("io::Error")
  ELSE IF ~m.parses THEN Err("toml::de::Error")
  ELSE IF m.package # "table" THEN Err("Invalid Cargo.toml: missing [package]")
  ELSE Ok(m.name_str)

extract_program_name(m) ==
  IF ~m.readable THEN Err("io::Error")
  ELSE IF ~m.parses THEN Err("toml::de::Error")
  ELSE IF m.package # "table" THEN Err("Invalid Cargo.toml: missing [package]")
  ELSE IF m.name # "string" THEN Err("Invalid Cargo.toml: missing package name")
  ELSE Ok(m.name_str)

\* ---------------------------------------- serde_json::to_string_pretty
RECURSIVE Indent(_)
Indent(level) == IF level = 0 THEN "" ELSE "  " \o Indent(level - 1)

JsonString(str) == "\"" \o str \o "\""

RECURSIVE JsonLines(_, _, _)
JsonLines(parts, level, i) ==
  IF i > Len(parts) THEN ""
  ELSE Indent(level) \o parts[i] \o (IF i < Len(parts) THEN ",\n" ELSE "\n")
       \o JsonLines(parts, level, i + 1)

JsonArray(elems, level) ==
  IF Len(elems) = 0 THEN "[]"
  ELSE "[\n" \o JsonLines(elems, level + 1, 1) \o Indent(level) \o "]"

JsonObject(members, level) ==
  "{\n" \o JsonLines([k \in 1..Len(members) |->
                        JsonString(members[k][1]) \o ": " \o members[k][2]],
                     level + 1, 1)
        \o Indent(level) \o "}"

JsonNameType(rec, level) ==
  JsonObject(<< <<"name", JsonString(rec.name)>>,
                <<"type_name", JsonString(rec.type_name)>> >>, level)

JsonInstruction(ins, level) ==
  JsonObject(<< <<"name", JsonString(ins.name)>>,
                <<"args", JsonArray([k \in 1..Len(ins.args) |->
                                       JsonNameType(ins.args[k], level + 2)], level + 1)>>,
                <<"accounts", JsonArray(<<>>, level + 1)>> >>, level)

JsonAccount(acc, level) ==
  JsonObject(<< <<"name", JsonString(acc.name)>>,
                <<"type_name", JsonString(acc.type_name)>>,
                <<"fields", JsonArray([k \in 1..Len(acc.fields) |->
                                         JsonNameType(acc.fields[k], level + 2)], level + 1)>> >>,
             level)

JsonType(t, level) ==
  JsonObject(<< <<"name", JsonString(t.name)>>,
                <<"type_def", JsonString(t.type_def)>> >>, level)

to_string_pretty(idl) ==
  JsonObject(<< <<"version", JsonString(idl.version)>>,
                <<"name", JsonString(idl.name)>>,
                <<"instructions", JsonArray([k \in 1..Len(idl.instructions) |->
                                   JsonInstruction(idl.instructions[k], 2)], 1)>>,
                <<"accounts", JsonArray([k \in 1..Len(idl.accounts) |->
                                   JsonAccount(idl.accounts[k], 2)], 1)>>,
                <<"types", JsonArray([k \in 1..Len(idl.types) |->
                                   JsonType(idl.types[k], 2)], 1)>> >>, 0)

Idl(n, ins, accs, tys) ==
  [version |-> "0.1.0", name |-> n, instructions |-> ins, accounts |-> accs, types |-> tys]

\* ------------------------------------------------------------ the inputs
U64 == TyPath("u64", <<>>)
Pubkey == TyPath("Pubkey", <<>>)
Bytes32 == TyArray(TyPath("u8", <<>>), "32")

ArgCtx == Typed(PatIdent("ctx"), TyPath("Context", <<>>))
ArgAmount == Typed(PatIdent("amount"), U64)
ArgData == Typed(PatIdent("data"), TyPath("Vec", <<Bytes32>>))
ArgPair == Typed(PatTuple, TyTuple(<<U64, TyRef(Bytes32)>>))

FnArgPool == {ArgCtx, ArgAmount, ArgData, ArgPair, Receiver}

VisPool == {"Public", "Restricted", "Inherited"}

AttrAccount == Attr(<<"account">>, "")
AttrDerive == Attr(<<"derive">>, "(Clone)")
AttrRepr == Attr(<<"repr">>, "(C)")
AttrQualified == Attr(<<"anchor_lang", "account">>, "")

AttrPool == {AttrAccount, AttrDerive, AttrRepr, AttrQualified}

FieldOwner == Field(Some("owner"), Pubkey)
FieldBalance == Field(Some("balance"), U64)

NamedFields == {[style |-> "Named", list |-> l] : l \in SeqsUpTo({FieldOwner, FieldBalance}, MaxFields)}
UnnamedFields ==
  {[style |-> "Unnamed", list |-> l] :
     l \in SeqsUpTo({Field(None, U64), Field(None, TyRef(Bytes32))}, MaxFields) \ {<<>>}}
FieldsPool == NamedFields \cup UnnamedFields \cup {NoFields}

\* one function of every visibility and parameter list
RichFns == {ItemFn(v, "initialize", ins) : v \in VisPool, ins \in SeqsUpTo(FnArgPool, MaxParams)}

\* one record of every attribute list and field list
RichStructs == {ItemStruct(as, "Vault", fs) : as \in SeqsUpTo(AttrPool, MaxAttrs), fs \in FieldsPool}

\* declarations that are combined freely, among them a record and a choice
\* that carry the name of the account record Vault
FnInitialize == ItemFn("Public", "initialize", <<ArgCtx, ArgAmount>>)
FnHelper == ItemFn("Restricted", "helper", <<ArgAmount>>)
StructVault == ItemStruct(<<AttrAccount>>, "Vault", [style |-> "Named", list |-> <<FieldOwner, FieldBalance>>])
StructConfig == ItemStruct(<<>>, "Config", [style |-> "Named", list |-> <<FieldOwner>>])
StructVaultPlain == ItemStruct(<<>>, "Vault", NoFields)
EnumVault == ItemEnum(<<>>, "Vault", <<"Open", "Closed">>)
EnumSide == ItemEnum(<<AttrDerive>>, "Side", <<"Buy", "Sell">>)

MixItems ==
  {FnInitialize, FnHelper, StructVault, StructConfig, StructVaultPlain, EnumVault,
   EnumSide, ItemOther}

Trees == SeqsUpTo(MixItems, MaxItems) \cup {<<it>> : it \in RichFns \cup RichStructs}

\* the expanded source text, identified with what syn::parse_file makes of it
SourceText(valid, items) == [parses |-> valid, items |-> items]
Sources == {SourceText(FALSE, <<>>)} \cup {SourceText(TRUE, t) : t \in Trees}

Manifests ==
  { Manifest(FALSE, FALSE, "absent", "absent", ""),
    Manifest(TRUE, FALSE, "absent", "absent", ""),
    Manifest(TRUE, TRUE, "absent", "absent", ""),
    Manifest(TRUE, TRUE, "value", "absent", ""),
    Manifest(TRUE, TRUE, "table", "absent", ""),
    Manifest(TRUE, TRUE, "table", "value", ""),
    Manifest(TRUE, TRUE, "table", "string", "vault_program") }

\* --------------------------------------------------------------- state
VARIABLES
  pc,             \* the statement of main that runs next
  expanded_code,  \* main's expanded_code
  ast,            \* main's ast
  instructions,   \* main's instructions
  accounts,       \* main's accounts
  types,          \* main's types
  manifest,       \* the manifest file as extract_program_name found it
  program_name,   \* main's program_name
  idl_json,       \* main's idl_json
  output_file,    \* the file at args.output: [state, content]
  stderr,         \* what the run printed to standard error
  stdout,         \* what the run printed to standard output
  result,         \* "running", or main's return value "Ok" / the error
  steps           \* the calls main has made so far, in order

vars ==
  <<pc, expanded_code, ast, instructions, accounts, types, manifest, program_name,
    idl_json, output_file, stderr, stdout, result, steps>>

Untouched == [state |-> "untouched", content |-> ""]

\* main after Cli::parse() has returned the arguments
Init ==
  /\ pc = "expand_crate"
  /\ expanded_code = SourceText(FALSE, <<>>)
  /\ ast = <<>>
  /\ instructions = <<>>
  /\ accounts = <<>>
  /\ types = <<>>
  /\ manifest = NoManifest
  /\ program_name = ""
  /\ idl_json = ""
  /\ output_file = Untouched
  /\ stderr = ""
  /\ stdout = ""
  /\ result = "running"
  /\ steps = <<>>

\* `?` on an Err: main returns the error
Abort(e) ==
  /\ pc' = "done"
  /\ result' = e

\* mutant: the exit status is not looked at, the captured output is used anyway
ExpandCrate_ignore_status ==
  /\ pc = "expand_crate"
  /\ steps' = Append(steps, "expand_crate")
  /\ \/ /\ Abort("panic")
        /\ UNCHANGED <<expanded_code, stderr>>
     \/ /\ Abort("io::Error")
        /\ UNCHANGED <<expanded_code, stderr>>
     \/ /\ stderr' \in {"", "cargo expand diagnostics"}
        /\ \E src \in Sources : expanded_code' = src
        /\ pc' = "parse_source_file"
        /\ UNCHANGED result
  /\ UNCHANGED <<ast, instructions, accounts, types, manifest, program_name, idl_json,
                 output_file, stdout>>

\* line 72: expand_crate(&args.manifest_path)?
ExpandCrate ==
  /\ pc = "expand_crate"
  /\ steps' = Append(steps, "expand_crate")
  /\ \/ \* manifest_path is not valid UTF-8: to_str().unwrap() panics
        /\ Abort("panic")
        /\ UNCHANGED <<expanded_code, stderr>>
     \/ \* Command::output() fails: cargo could not be spawned
        /\ Abort("io::Error")
        /\ UNCHANGED <<expanded_code, stderr>>
     \/ \* cargo expand exits with a non-zero status
        /\ stderr' = "cargo expand diagnostics"
        /\ Abort("Failed to expand macros")
        /\ UNCHANGED expanded_code
     \/ \* cargo expand succeeds: its standard output is the expanded code
        /\ \E src \in Sources : expanded_code' = src
        /\ pc' = "parse_source_file"
        /\ UNCHANGED <<stderr, result>>
  /\ UNCHANGED <<ast, instructions, accounts, types, manifest, program_name, idl_json,
                 output_file, stdout>>

\* line 75: parse_source_file(&expanded_code)?
ParseSourceFile ==
  /\ pc = "parse_source_file"
  /\ steps' = Append(steps, "parse_source_file")
  /\ \/ /\ ~expanded_code.parses
        /\ Abort("syn::Error")
        /\ UNCHANGED ast
     \/ /\ expanded_code.parses
        /\ ast' = expanded_code.items
        /\ pc' = "collect_instructions"
        /\ UNCHANGED result
  /\ UNCHANGED <<expanded_code, instructions, accounts, types, manifest, program_name,
                 idl_json, output_file, stderr, stdout>>

\* line 78
CollectInstructions ==
  /\ pc = "collect_instructions"
  /\ steps' = Append(steps, "collect_instructions")
  /\ instructions' = collect_instructions(ast)
  /\ pc' = "collect_accounts"
  /\ UNCHANGED <<expanded_code, ast, accounts, types, manifest, program_name, idl_json,
                 output_file, stderr, stdout, result>>

\* line 79
CollectAccounts ==
  /\ pc = "collect_accounts"
  /\ steps' = Append(steps, "collect_accounts")
  /\ accounts' = collect_accounts(ast)
  /\ pc' = "collect_types"
  /\ UNCHANGED <<expanded_code, ast, instructions, types, manifest, program_name,
                 idl_json, output_file, stderr, stdout, result>>

\* line 80
CollectTypes ==
  /\ pc = "collect_types"
  /\ steps' = Append(steps, "collect_types")
  /\ types' = collect_types(ast)
  /\ pc' = "extract_program_name"
  /\ UNCHANGED <<expanded_code, ast, instructions, accounts, manifest, program_name,
                 idl_json, output_file, stderr, stdout, result>>

\* line 83: extract_program_name(&args.manifest_path)?
ExtractProgramName ==
  /\ pc = "extract_program_name"
  /\ steps' = Append(steps, "extract_program_name")
  /\ \E m \in Manifests :
       /\ manifest' = m
       /\ LET r == extract_program_name(m)
          IN IF r.ok
             THEN /\ program_name' = r.val
                  /\ pc' = "to_string_pretty"
                  /\ UNCHANGED result
             ELSE /\ Abort(r.err)
                  /\ UNCHANGED program_name
  /\ UNCHANGED <<expanded_code, ast, instructions, accounts, types, idl_json,
                 output_file, stderr, stdout>>

\* lines 86-95: the Idl is built and serde_json::to_string_pretty(&idl)?
Serialize ==
  /\ pc = "to_string_pretty"
  /\ steps' = Append(steps, "to_string_pretty")
  /\ \/ /\ idl_json' = to_string_pretty(Idl(program_name, instructions, accounts, types))
        /\ pc' = "fs_write"
        /\ UNCHANGED result
     \/ /\ Abort("serde_json::Error")
        /\ UNCHANGED idl_json
  /\ UNCHANGED <<expanded_code, ast, instructions, accounts, types, manifest,
                 program_name, output_file, stderr, stdout>>

\* line 96: fs::write(&args.output, idl_json)?, which is File::create followed
\* by write_all
FsWrite ==
  /\ pc = "fs_write"
  /\ steps' = Append(steps, "fs_write")
  /\ \/ \* the file cannot be created or opened
        /\ Abort("io::Error")
        /\ UNCHANGED output_file
     \/ \* the file is created (truncated) and write_all fails part-way
        /\ output_file' = [state |-> "partial", content |-> ""]
        /\ Abort("io::Error")
     \/ /\ output_file' = [state |-> "written", content |-> idl_json]
        /\ pc' = "println"
        /\ UNCHANGED result
  /\ UNCHANGED <<expanded_code, ast, instructions, accounts, types, manifest,
                 program_name, idl_json, stderr, stdout>>

\* lines 98-100
Println ==
  /\ pc = "println"
  /\ steps' = Append(steps, "println")
  /\ stdout' = "IDL generated at idl.json"
  /\ pc' = "done"
  /\ result' = "Ok"
  /\ UNCHANGED <<expanded_code, ast, instructions, accounts, types, manifest,
                 program_name, idl_json, output_file, stderr>>

Next ==
  \/ ExpandCrate
  \/ ParseSourceFile
  \/ CollectInstructions
  \/ CollectAccounts
  \/ CollectTypes
  \/ ExtractProgramName
  \/ Serialize
  \/ FsWrite
  \/ Println

Spec == Init /\ [][Next]_vars

\* ===================================================================
\* Properties
\* ===================================================================
Ran(step) == \E k \in 1..Len(steps) : steps[k] = step

Names(entries) == {entries[k].name : k \in 1..Len(entries)}

CountNamed(entries, n) == Cardinality({k \in 1..Len(entries) : entries[k].name = n})

CountItems(items, kind, n) ==
  Cardinality({k \in 1..Len(items) : items[k].kind = kind /\ items[k].ident = n})

\* the text of the types the inputs use, as the token stream prints it
SourceForm(ty) ==
  CASE ty = TyPath("Context", <<>>) -> "Context"
    [] ty = U64 -> "u64"
    [] ty = Pubkey -> "Pubkey"
    [] ty = TyPath("Vec", <<Bytes32>>) -> "Vec < [u8 ; 32] >"
    [] ty = TyTuple(<<U64, TyRef(Bytes32)>>) -> "(u64 , & [u8 ; 32])"

Failed == result \notin {"running", "Ok"}

\* ------------------------------------------------------------------ C1
\* C1 (as claimed): the set of names emitted in accounts and the set of
\* names emitted in types never intersect, whatever the tree.
C1_NamesDisjoint == Names(accounts) \cap Names(types) = {}

\* ------------------------------------------------------------------ C2
IsPublicFn(it) == it.kind = "Fn" /\ it.vis = "Public"
IdentBound(arg) == arg.kind = "Typed" /\ arg.pat.kind = "Ident"

\* C2: once collect_instructions has run, instructions holds exactly the
\* top-level functions whose visibility is Public, in source order; a
\* function of any other visibility contributes nothing; and a retained
\* function whose N parameters are all typed and identifier-bound has
\* exactly N args carrying the parameters' names and rendered types in
\* declaration order.
C2_PublicFunctionsOnly ==
  Ran("collect_instructions") =>
    LET pub == SelectSeq(ast, IsPublicFn)
    IN /\ Len(instructions) = Len(pub)
       /\ \A k \in 1..Len(pub) :
            /\ instructions[k].name = pub[k].ident
            /\ (\A j \in 1..Len(pub[k].inputs) : IdentBound(pub[k].inputs[j])) =>
                 /\ Len(instructions[k].args) = Len(pub[k].inputs)
                 /\ \A j \in 1..Len(pub[k].inputs) :
                      /\ instructions[k].args[j].name = pub[k].inputs[j].pat.ident
                      /\ instructions[k].args[j].type_name = SourceForm(pub[k].inputs[j].ty)
       /\ \A i \in 1..Len(ast) :
            (ast[i].kind = "Fn" /\ ast[i].vis # "Public"
               /\ ~\E h \in 1..Len(ast) : IsPublicFn(ast[h]) /\ ast[h].ident = ast[i].ident)
            => ast[i].ident \notin Names(instructions)

\* a crate-local function is dropped, the public initialize(ctx, amount) kept
C2_Witness ==
  /\ pc = "collect_accounts"
  /\ ast = <<FnHelper, FnInitialize>>
  /\ instructions = <<[name |-> "initialize",
                       args |-> <<IdlArgument("ctx", "Context"), IdlArgument("amount", "u64")>>,
                       accounts |-> <<>>]>>

\* ------------------------------------------------------------------ C3
\* C3 (as claimed): the output file is written in full or not touched at
\* all: a failed run leaves no file and no partial file, and the file is
\* written only after every earlier step has succeeded.
C3_AllOrNothing ==
  /\ Failed => output_file = Untouched
  /\ output_file # Untouched =>
       /\ output_file.state = "written"
       /\ output_file.content =
            to_string_pretty(Idl(program_name, collect_instructions(ast),
                                 collect_accounts(ast), collect_types(ast)))
       /\ Ran("expand_crate") /\ Ran("parse_source_file") /\ Ran("collect_instructions")
       /\ Ran("collect_accounts") /\ Ran("collect_types") /\ Ran("extract_program_name")

\* ------------------------------------------------------------------ C4
IsMarkedRecord(it) ==
  /\ it.kind = "Struct"
  /\ \E k \in 1..Len(it.attrs) : it.attrs[k].path \in {<<"account">>, <<"derive">>}
IsNamedField(f) == f.ident.some

\* C4: once collect_accounts has run, accounts holds exactly the top-level
\* records that carry an account or a derive attribute, in source order;
\* each has type_name equal to name and one field entry per named field, in
\* declaration order, positional fields being skipped.
C4_MarkedRecordsOnly ==
  Ran("collect_accounts") =>
    LET marked == SelectSeq(ast, IsMarkedRecord)
    IN /\ Len(accounts) = Len(marked)
       /\ \A k \in 1..Len(marked) :
            LET named == SelectSeq(marked[k].fields.list, IsNamedField)
            IN /\ accounts[k].name = marked[k].ident
               /\ accounts[k].type_name = accounts[k].name
               /\ Len(accounts[k].fields) = Len(named)
               /\ \A j \in 1..Len(named) :
                    /\ accounts[k].fields[j].name = named[j].ident.val
                    /\ accounts[k].fields[j].type_name = SourceForm(named[j].ty)

\* a record classified by its derive attribute alone, with two named fields
C4_Witness ==
  /\ pc = "collect_types"
  /\ ast = <<ItemStruct(<<AttrRepr, AttrDerive>>, "Vault",
                        [style |-> "Named", list |-> <<FieldOwner, FieldBalance>>])>>
  /\ accounts = <<[name |-> "Vault", type_name |-> "Vault",
                   fields |-> <<IdlField("owner", "Pubkey"), IdlField("balance", "u64")>>]>>

\* ------------------------------------------------------------------ C5
IsUnclaimedOrChoice(it) ==
  \/ it.kind = "Struct" /\ it.ident \notin Names(accounts)
  \/ it.kind = "Enum"

\* C5 (as claimed): once collect_types has run, types holds, in source
\* order, one entry for each record whose name the account extractor did
\* not claim and one for every choice, and nothing else.
C5_UnclaimedNamesOnly ==
  Ran("collect_types") =>
    LET kept == SelectSeq(ast, IsUnclaimedOrChoice)
    IN /\ Len(types) = Len(kept)
       /\ \A k \in 1..Len(kept) : types[k].name = kept[k].ident

\* ------------------------------------------------------------------ C6
ManifestComplete ==
  manifest.readable /\ manifest.parses /\ manifest.package = "table" /\ manifest.name = "string"

\* C6: once extract_program_name has been called, it was called once; if
\* the manifest is readable, parses, has a package table and a string name
\* in it, the run goes on with that name; in every other case the call
\* returns an error, no name is taken, and the run ends there with that
\* error and the output file untouched.
C6_NameOrAbort ==
  Ran("extract_program_name") =>
    /\ Cardinality({k \in 1..Len(steps) : steps[k] = "extract_program_name"}) = 1
    /\ ManifestComplete =>
         /\ program_name = manifest.name_str
         /\ \/ pc = "to_string_pretty" /\ result = "running"
            \/ Ran("to_string_pretty")
    /\ ~ManifestComplete =>
         /\ program_name = ""
         /\ pc = "done"
         /\ Failed
         /\ steps[Len(steps)] = "extract_program_name"
         /\ ~manifest.readable => result = "io::Error"
         /\ (manifest.readable /\ ~manifest.parses) => result = "toml::de::Error"
         /\ (manifest.parses /\ manifest.package # "table") =>
              result = "Invalid Cargo.toml: missing [package]"
         /\ (manifest.package = "table" /\ manifest.name # "string") =>
              result = "Invalid Cargo.toml: missing package name"
         /\ output_file = Untouched

\* a manifest with a package table and no name in it
C6_Witness ==
  /\ manifest = Manifest(TRUE, TRUE, "table", "absent", "")
  /\ result = "Invalid Cargo.toml: missing package name"
  /\ pc = "done"

\* ------------------------------------------------------------------ C8
IsTypedArg(arg) == arg.kind = "Typed"

\* C8: for every retained function the args are its typed parameters, one
\* entry each at its declaration position: the entry of a parameter bound
\* by a pattern that is not an identifier is named "_", and a receiver has
\* no entry.
C8_ArgsAreTypedParameters ==
  Ran("collect_instructions") =>
    LET pub == SelectSeq(ast, IsPublicFn)
    IN /\ Len(instructions) = Len(pub)
       /\ \A k \in 1..Len(pub) :
            LET typed == SelectSeq(pub[k].inputs, IsTypedArg)
            IN /\ Len(instructions[k].args) = Len(typed)
               /\ \A j \in 1..Len(typed) :
                    /\ instructions[k].args[j].type_name = SourceForm(typed[j].ty)
                    /\ typed[j].pat.kind = "Ident" =>
                         instructions[k].args[j].name = typed[j].pat.ident
                    /\ typed[j].pat.kind # "Ident" => instructions[k].args[j].name = "_"

\* a receiver followed by a tuple pattern: one entry, named "_"
C8_Witness ==
  /\ pc = "collect_accounts"
  /\ ast = <<ItemFn("Public", "initialize", <<Receiver, ArgPair>>)>>
  /\ instructions = <<[name |-> "initialize",
                       args |-> <<IdlArgument("_", "(u64 , & [u8 ; 32])")>>,
                       accounts |-> <<>>]>>

\* ------------------------------------------------------------------ C9
RunOrder ==
  <<"expand_crate", "parse_source_file", "collect_instructions", "collect_accounts",
    "collect_types", "extract_program_name", "to_string_pretty", "fs_write", "println">>

\* C9: the calls of a run are an initial part of the fixed order expand,
\* parse, extract, read manifest, serialize, write; a failed call is the
\* last one; after a non-zero exit of cargo expand nothing is parsed, read
\* or written; and the manifest is read only after expansion and parsing
\* have succeeded.
C9_FixedOrder ==
  /\ Len(steps) <= Len(RunOrder)
  /\ \A k \in 1..Len(steps) : steps[k] = RunOrder[k]
  /\ Failed => pc = "done" /\ ~ENABLED Next
  /\ stderr # "" =>
       /\ steps = <<"expand_crate">>
       /\ result = "Failed to expand macros"
       /\ ast = <<>> /\ manifest = NoManifest /\ output_file = Untouched
  /\ Ran("extract_program_name") =>
       /\ steps[1] = "expand_crate" /\ steps[2] = "parse_source_file"
       /\ expanded_code.parses /\ ast = expanded_code.items

\* a manifest without package.name ends the run after expansion and parsing
C9_Witness ==
  /\ result = "Invalid Cargo.toml: missing package name"
  /\ steps = SubSeq(RunOrder, 1, 6)
  /\ expanded_code.parses
  /\ output_file = Untouched

\* ----------------------------------------------------------------- C10
ItemNames == {ast[k].ident : k \in 1..Len(ast)}

\* C10: once the three extractors have run, every top-level record has
\* exactly one entry, in accounts or in types, and every choice one entry in
\* types: per name, and so in total, the entries of accounts and types are
\* as many as the records and choices, and accounts holds records only.
C10_RecordsPartitioned ==
  Ran("collect_types") =>
    /\ \A n \in ItemNames \cup Names(accounts) \cup Names(types) :
         /\ CountNamed(accounts, n) + CountNamed(types, n)
              = CountItems(ast, "Struct", n) + CountItems(ast, "Enum", n)
         /\ CountNamed(accounts, n) <= CountItems(ast, "Struct", n)
    /\ Len(accounts) + Len(types)
         = Cardinality({k \in 1..Len(ast) : ast[k].kind \in {"Struct", "Enum"}})

\* an account record, a plain record and a choice, all of one name
C10_Witness ==
  /\ pc = "extract_program_name"
  /\ ast = <<StructVault, StructVaultPlain, EnumVault>>
  /\ Len(accounts) = 1
  /\ Len(types) = 2

====
